---- MODULE Spec2Model ----
(***************************************************************************)
(* Model of src/app/main.rs: the two axum handlers (get_extrato,           *)
(* post_transacao) and the two PL/pgSQL functions they call (get_extrato,  *)
(* process_transaction), executed by PostgreSQL as autocommit statements   *)
(* under its default READ COMMITTED isolation.                             *)
(*                                                                         *)
(* Strings are sequences of one-byte characters, so that String::len and   *)
(* chars().next() are Len and Head.  A u32 is a record [hi, lo] with hi    *)
(* the top bit and lo the low 31 bits (value = hi * 2^31 + lo), which      *)
(* keeps every number inside TLC's 32-bit integers.                        *)
(***************************************************************************)
EXTENDS Integers, Sequences, FiniteSets, TLC

VARIABLES
    accounts,      \* table accounts: id -> [balance, account_limit] (committed)
    transactions,  \* table transactions: set of committed rows
    next_id,       \* sequence behind transactions.id
    now,           \* the database clock read by NOW()
    pc,            \* per request slot: position of the handler / statement
    req,           \* per request slot: the HTTP request being served
    conn,          \* per request slot: the statement running on its connection
    resp,          \* per request slot: the HTTP response
    budget,        \* requests the clients may still send
    main,          \* position of main
    retries,       \* main: let mut retries
    slept,         \* main: seconds spent in sleep so far
    setup          \* the setup statements executed so far, in order

startup == <<main, retries, slept, setup>>

vars == <<accounts, transactions, next_id, now, pc, req, conn, resp, budget,
          main, retries, slept, setup>>

-----------------------------------------------------------------------------
(* Bounds of the model *)

MaxReqs == 2       \* request slots (and requests) of the concurrent specification
SeqReqs == 13      \* requests of the sequential specification (one slot)
ReadReqs == 3      \* requests (and slots) of the read specification
MaxNow == 2        \* ticks of the database clock in the clock specification
SeedLimit == 100   \* account_limit of every provisioned account

(* Program constants *)

MinId == 1                \* if id < 1 || id > 5
MaxId == 5
MaxDescricao_OffByOne == 10 + 1
MaxDescricao == 10        \* payload.descricao.len() > 10
ExtratoLimit == 10        \* LIMIT 10
I32Max == 2147483647      \* INT / i32
I32Min == (-2147483647) - 1

MaxRetries == 10          \* let mut retries = 10
SleepSecs == 3            \* sleep(Duration::from_secs(3))

NOT_FOUND == 404
UNPROCESSABLE_ENTITY == 422
INTERNAL_SERVER_ERROR == 500
OK == 200

-----------------------------------------------------------------------------
(* Values *)

U32(hi, lo) == [hi |-> hi, lo |-> lo]
U32Zero == U32(0, 0)

\* payload.valor as i32: two's-complement reinterpretation of the 32 bits
AsI32(v) == IF v.hi = 0 THEN v.lo ELSE (v.lo - I32Max) - 1

JsonNull == [null |-> TRUE]
is_null(json) == "null" \in DOMAIN json

is_error_WrongKey(json) == "erro" \in DOMAIN json /\ json.erro = 1

\* json.get("error").and_then(as_i64).map(v == 1).unwrap_or(false)
is_error(json) == "error" \in DOMAIN json /\ json.error = 1

ErrorJson == [error |-> 1]     \* '{"error": 1}'::json

OutOfRange_OffByOne(id) == id <= MinId \/ id > MaxId

\* if id < 1 || id > 5
OutOfRange(id) == id < MinId \/ id > MaxId

NoReq == [method |-> "none"]
NoConn == [st |-> "none"]        \* no statement, or the connection failed
Raised == [st |-> "raised"]      \* the statement ended with an SQL error
NoResp == [status |-> 0, body |-> JsonNull]

-----------------------------------------------------------------------------
(* PostgreSQL int4 arithmetic: an out-of-range result raises an error *)

AddOverflows(a, b) == \/ (b > 0 /\ a > I32Max - b)
                      \/ (b < 0 /\ a < I32Min - b)
SubOverflows(a, b) == \/ (b < 0 /\ a > I32Max + b)
                      \/ (b > 0 /\ a < I32Min + b)
NegOverflows(a) == a = I32Min

\* WHERE ... AND (p_type = 'c' OR (balance - p_amount) >= -account_limit)
\* evaluated on one row version; OR stops at its first true argument.
WhereRaises(row, p_amount, p_type) ==
    /\ p_type # "c"
    /\ (SubOverflows(row.balance, p_amount) \/ NegOverflows(row.account_limit))

WhereHolds_BalanceOnly(row, p_amount, p_type) ==
    \/ p_type = "c"
    \/ row.balance >= -row.account_limit

WhereHolds(row, p_amount, p_type) ==
    \/ p_type = "c"
    \/ (row.balance - p_amount) >= -row.account_limit

\* SET balance = balance + CASE WHEN p_type = 'c' THEN p_amount ELSE -p_amount END
SetRaises(row, p_amount, p_type) ==
    IF p_type = "c"
    THEN AddOverflows(row.balance, p_amount)
    ELSE NegOverflows(p_amount) \/ AddOverflows(row.balance, -p_amount)

SetBalance_AlwaysAdds(row, p_amount, p_type) ==
    row.balance + p_amount

SetBalance(row, p_amount, p_type) ==
    row.balance + (IF p_type = "c" THEN p_amount ELSE -p_amount)

-----------------------------------------------------------------------------
(* Request slots *)

Slots == DOMAIN pc

InFlight(r) == pc[r] \notin {"idle", "done"}

\* A slot takes a request when it is idle (slots fill in order) or, once every
\* slot has been used, when its previous request is finished.
Free(r) ==
    /\ budget > 0
    /\ \/ pc[r] = "idle" /\ (IF r = 1 THEN TRUE ELSE pc[r - 1] # "idle")
       \/ pc[r] = "done" /\ \A s \in Slots : pc[s] # "idle"

Reply(r, status, body) ==
    /\ pc' = [pc EXCEPT ![r] = "done"]
    /\ resp' = [resp EXCEPT ![r] = [status |-> status, body |-> body]]

RowLocked_AnyRow(r, id) ==
    \E s \in Slots \ {r} :
        /\ req[s].method = "POST"
        /\ pc[s] = "returned"
        /\ conn[s].locked

\* The row of account id is locked by an uncommitted statement of another slot
RowLocked(r, id) ==
    \E s \in Slots \ {r} :
        /\ req[s].method = "POST"
        /\ pc[s] = "returned"
        /\ conn[s].locked
        /\ conn[s].args.p_account_id = id

\* UPDATE accounts ... WHERE id = p_account_id locks the row it updates: it
\* proceeds only when no uncommitted statement holds that row.
LockNeverWaits(r, id) == TRUE

RowLockGranted_NeverReleased(r, id) ==
    ~\E s \in Slots \ {r} :
        /\ req[s].method = "POST"
        /\ pc[s] \in {"returned", "committed", "done"}
        /\ conn[s].st = "process_transaction"
        /\ conn[s].balance # <<>>
        /\ conn[s].args.p_account_id = id

RowLockGranted(r, id) == ~RowLocked(r, id)

-----------------------------------------------------------------------------
(* POST /clientes/{id}/transacoes *)

post_transacao_validates_first(r, id, payload) ==
    /\ Free(r)
    /\ budget' = budget - 1
    /\ req' = [req EXCEPT ![r] = [method |-> "POST", id |-> id, payload |-> payload]]
    /\ IF \/ Len(payload.descricao) = 0 \/ Len(payload.descricao) > MaxDescricao
          \/ payload.tipo # <<"c">> /\ payload.tipo # <<"d">>
          \/ payload.valor = U32Zero
       THEN Reply(r, UNPROCESSABLE_ENTITY, JsonNull) /\ conn' = [conn EXCEPT ![r] = NoConn]
       ELSE IF OutOfRange(id)
       THEN Reply(r, NOT_FOUND, JsonNull) /\ conn' = [conn EXCEPT ![r] = NoConn]
       ELSE /\ pc' = [pc EXCEPT ![r] = "query"]
            /\ resp' = [resp EXCEPT ![r] = NoResp]
            /\ conn' = [conn EXCEPT ![r] =
                          [st |-> "process_transaction",
                           args |-> [p_account_id |-> id,
                                     p_amount |-> AsI32(payload.valor),
                                     p_type |-> Head(payload.tipo),
                                     p_description |-> payload.descricao],
                           xact_start |-> 0,
                           locked |-> FALSE,
                           balance |-> <<>>,
                           inserted |-> <<>>,
                           response |-> <<>>]]
    /\ UNCHANGED <<accounts, transactions, next_id, now>>
    /\ UNCHANGED startup

\* The handler up to the await of the query
post_transacao(r, id, payload) ==
    /\ Free(r)
    /\ budget' = budget - 1
    /\ req' = [req EXCEPT ![r] = [method |-> "POST", id |-> id, payload |-> payload]]
    /\ IF OutOfRange(id)
       THEN Reply(r, NOT_FOUND, JsonNull) /\ conn' = [conn EXCEPT ![r] = NoConn]
       ELSE IF Len(payload.descricao) = 0 \/ Len(payload.descricao) > MaxDescricao
       THEN Reply(r, UNPROCESSABLE_ENTITY, JsonNull) /\ conn' = [conn EXCEPT ![r] = NoConn]
       ELSE IF payload.tipo # <<"c">> /\ payload.tipo # <<"d">>
       THEN Reply(r, UNPROCESSABLE_ENTITY, JsonNull) /\ conn' = [conn EXCEPT ![r] = NoConn]
       ELSE IF payload.valor = U32Zero
       THEN Reply(r, UNPROCESSABLE_ENTITY, JsonNull) /\ conn' = [conn EXCEPT ![r] = NoConn]
       ELSE /\ pc' = [pc EXCEPT ![r] = "query"]
            /\ resp' = [resp EXCEPT ![r] = NoResp]
            /\ conn' = [conn EXCEPT ![r] =
                          [st |-> "process_transaction",
                           args |-> [p_account_id |-> id,
                                     p_amount |-> AsI32(payload.valor),
                                     p_type |-> Head(payload.tipo),
                                     p_description |-> payload.descricao],
                           xact_start |-> 0,
                           locked |-> FALSE,
                           balance |-> <<>>,
                           inserted |-> <<>>,
                           response |-> <<>>]]
    /\ UNCHANGED <<accounts, transactions, next_id, now>>
    /\ UNCHANGED startup

\* An error raised inside the statement: the transaction rolls back and the
\* handler's match takes its Err(_) arm.
Raise(r) ==
    /\ Reply(r, INTERNAL_SERVER_ERROR, JsonNull)
    /\ conn' = [conn EXCEPT ![r] = Raised]

\* The statement ends with no row from updated_account: response IS NULL
NoRowUpdated(r, locked) ==
    /\ pc' = [pc EXCEPT ![r] = "returned"]
    /\ conn' = [conn EXCEPT ![r].locked = locked,
                            ![r].response = <<ErrorJson>>]
    /\ UNCHANGED resp

\* process_transaction starts: the statement takes its snapshot and scans
\* accounts for the row that satisfies the WHERE clause in that snapshot.
process_transaction_scan(r) ==
    /\ req[r].method = "POST" /\ pc[r] = "query"
    /\ LET a == conn[r].args IN
       IF a.p_account_id \notin DOMAIN accounts
       THEN NoRowUpdated(r, FALSE)
       ELSE LET row == accounts[a.p_account_id] IN
            IF WhereRaises(row, a.p_amount, a.p_type)
            THEN Raise(r)
            ELSE IF ~WhereHolds(row, a.p_amount, a.p_type)
            THEN NoRowUpdated(r, FALSE)
            ELSE /\ pc' = [pc EXCEPT ![r] = "scanned"]
                 /\ conn' = [conn EXCEPT ![r].xact_start = now]
                 /\ UNCHANGED resp
    /\ UNCHANGED <<accounts, transactions, next_id, now, req, budget>>
    /\ UNCHANGED startup

\* The value the table gives created_at, a column the INSERT does not name:
\* the server's time when the row is inserted
created_at_default == now

InsertedRow_OwnTimestamp(r) ==
    LET a == conn[r].args IN
    [id |-> next_id,
     account_id |-> a.p_account_id,
     amount |-> a.p_amount,
     type |-> a.p_type,
     description |-> a.p_description,
     created_at |-> conn[r].xact_start]

\* INSERT INTO transactions (account_id, amount, type, description)
\* SELECT p_account_id, p_amount, p_type, p_description: id comes from the
\* sequence of the table and created_at from its default
InsertedRow(r) ==
    LET a == conn[r].args IN
    [id |-> next_id,
     account_id |-> a.p_account_id,
     amount |-> a.p_amount,
     type |-> a.p_type,
     description |-> a.p_description,
     created_at |-> created_at_default]

\* updated_account and inserted_transaction: the UPDATE takes the row lock
\* (waiting for a concurrent writer to finish), re-evaluates the WHERE clause
\* on the latest committed version of the row, writes the new balance and
\* the INSERT adds the transaction row; both stay invisible until commit.
process_transaction_update(r) ==
    /\ req[r].method = "POST" /\ pc[r] = "scanned"
    /\ LET a == conn[r].args
           row == accounts[a.p_account_id] IN
       /\ RowLockGranted(r, a.p_account_id)
       /\ IF WhereRaises(row, a.p_amount, a.p_type)
          THEN Raise(r) /\ UNCHANGED next_id
          ELSE IF ~WhereHolds(row, a.p_amount, a.p_type)
          THEN NoRowUpdated(r, TRUE) /\ UNCHANGED next_id
          ELSE IF SetRaises(row, a.p_amount, a.p_type)
          THEN Raise(r) /\ UNCHANGED next_id
          ELSE LET balance == SetBalance(row, a.p_amount, a.p_type) IN
               /\ pc' = [pc EXCEPT ![r] = "returned"]
               /\ next_id' = next_id + 1
               /\ conn' = [conn EXCEPT
                     ![r].locked = TRUE,
                     ![r].balance = <<balance>>,
                     ![r].inserted = <<InsertedRow(r)>>,
                     ![r].response = <<[saldo |-> balance,
                                        limite |-> row.account_limit]>>]
               /\ UNCHANGED resp
    /\ UNCHANGED <<accounts, transactions, now, req, budget>>
    /\ UNCHANGED startup

process_transaction_commit_record_only(r) ==
    /\ req[r].method = "POST" /\ pc[r] = "returned"
    /\ transactions' = transactions \cup {conn[r].inserted[i] : i \in DOMAIN conn[r].inserted}
    /\ conn' = [conn EXCEPT ![r].locked = FALSE]
    /\ pc' = [pc EXCEPT ![r] = "committed"]
    /\ UNCHANGED <<accounts, next_id, now, req, resp, budget>>
    /\ UNCHANGED startup

process_transaction_commit_rewriting(r) ==
    /\ req[r].method = "POST" /\ pc[r] = "returned"
    /\ LET id == conn[r].args.p_account_id IN
       accounts' = IF conn[r].balance = <<>> THEN accounts
                   ELSE [accounts EXCEPT ![id].balance = conn[r].balance[1]]
    /\ transactions' =
          IF conn[r].inserted = <<>> THEN transactions
          ELSE {t \in transactions : t.account_id # conn[r].args.p_account_id}
                  \cup {conn[r].inserted[1]}
    /\ conn' = [conn EXCEPT ![r].locked = FALSE]
    /\ pc' = [pc EXCEPT ![r] = "committed"]
    /\ UNCHANGED <<next_id, now, req, resp, budget>>
    /\ UNCHANGED startup

process_transaction_commit_balance_only(r) ==
    /\ req[r].method = "POST" /\ pc[r] = "returned"
    /\ LET id == conn[r].args.p_account_id IN
       accounts' = IF conn[r].balance = <<>> THEN accounts
                   ELSE [accounts EXCEPT ![id].balance = conn[r].balance[1]]
    /\ conn' = [conn EXCEPT ![r].locked = FALSE]
    /\ pc' = [pc EXCEPT ![r] = "committed"]
    /\ UNCHANGED <<transactions, next_id, now, req, resp, budget>>
    /\ UNCHANGED startup

\* The autocommit transaction of SELECT process_transaction(...) commits:
\* its writes become visible together and the row lock is released.
process_transaction_commit(r) ==
    /\ req[r].method = "POST" /\ pc[r] = "returned"
    /\ LET id == conn[r].args.p_account_id IN
       accounts' = IF conn[r].balance = <<>> THEN accounts
                   ELSE [accounts EXCEPT ![id].balance = conn[r].balance[1]]
    /\ transactions' = transactions \cup {conn[r].inserted[i] : i \in DOMAIN conn[r].inserted}
    /\ conn' = [conn EXCEPT ![r].locked = FALSE]
    /\ pc' = [pc EXCEPT ![r] = "committed"]
    /\ UNCHANGED <<next_id, now, req, resp, budget>>
    /\ UNCHANGED startup

\* The handler after the await: Ok(row)
post_transacao_reply(r) ==
    /\ req[r].method = "POST" /\ pc[r] = "committed"
    /\ LET json == conn[r].response[1] IN
       IF is_error(json)
       THEN Reply(r, UNPROCESSABLE_ENTITY, JsonNull)
       ELSE Reply(r, OK, json)
    /\ UNCHANGED <<accounts, transactions, next_id, now, req, conn, budget>>
    /\ UNCHANGED startup

post_transacao_fault_as_rejection(r) ==
    /\ req[r].method = "POST"
    /\ pc[r] \in {"query", "scanned", "returned", "committed"}
    /\ Reply(r, UNPROCESSABLE_ENTITY, JsonNull)
    /\ conn' = [conn EXCEPT ![r] =
                  IF pc[r] = "committed" THEN conn[r] ELSE NoConn]
    /\ UNCHANGED <<accounts, transactions, next_id, now, req, budget>>
    /\ UNCHANGED startup

\* The handler after the await: Err(_).  The statement failed before its
\* commit (its transaction rolls back) or its result never arrived.
post_transacao_fault(r) ==
    /\ req[r].method = "POST"
    /\ pc[r] \in {"query", "scanned", "returned", "committed"}
    /\ Reply(r, INTERNAL_SERVER_ERROR, JsonNull)
    /\ conn' = [conn EXCEPT ![r] =
                  IF pc[r] = "committed" THEN conn[r] ELSE NoConn]
    /\ UNCHANGED <<accounts, transactions, next_id, now, req, budget>>
    /\ UNCHANGED startup

-----------------------------------------------------------------------------
(* GET /clientes/{id}/extrato *)

\* The handler up to the await of the query
get_extrato(r, id) ==
    /\ Free(r)
    /\ budget' = budget - 1
    /\ req' = [req EXCEPT ![r] = [method |-> "GET", id |-> id]]
    /\ IF OutOfRange(id)
       THEN Reply(r, NOT_FOUND, JsonNull) /\ conn' = [conn EXCEPT ![r] = NoConn]
       ELSE /\ pc' = [pc EXCEPT ![r] = "query"]
            /\ resp' = [resp EXCEPT ![r] = NoResp]
            /\ conn' = [conn EXCEPT ![r] =
                          [st |-> "get_extrato",
                           args |-> [p_account_id |-> id],
                           account_info |-> <<>>,
                           rows |-> <<>>,
                           response |-> <<>>]]
    /\ UNCHANGED <<accounts, transactions, next_id, now>>
    /\ UNCHANGED startup

RECURSIVE OrderByIdAscLimit(_, _)
OrderByIdAscLimit(rows, n) ==
    IF n = 0 \/ rows = {} THEN <<>>
    ELSE LET t == CHOOSE x \in rows : \A y \in rows : y.id >= x.id
         IN <<t>> \o OrderByIdAscLimit(rows \ {t}, n - 1)

\* ORDER BY id DESC LIMIT n over a set of rows
RECURSIVE OrderByIdDescLimit(_, _)
OrderByIdDescLimit(rows, n) ==
    IF n = 0 \/ rows = {} THEN <<>>
    ELSE LET t == CHOOSE x \in rows : \A y \in rows : y.id <= x.id
         IN <<t>> \o OrderByIdDescLimit(rows \ {t}, n - 1)

\* SELECT amount AS valor, type AS tipo, description AS descricao,
\*        created_at AS realizada_em
Projected(t) == [valor |-> t.amount, tipo |-> t.type,
                 descricao |-> t.description, realizada_em |-> t.created_at]

\* An SQL value is <<>> (NULL) or <<v>>.  json_agg over no row is NULL, over
\* rows it is the JSON array of them
json_agg(rows) == IF rows = <<>> THEN <<>> ELSE <<rows>>

COALESCE_Null(value, default) == IF value = <<>> THEN JsonNull ELSE value[1]

\* COALESCE(last_transactions, '[]'::json)
COALESCE(value, default) == IF value = <<>> THEN default ELSE value[1]

get_extrato_account_dirty(r) ==
    /\ req[r].method = "GET" /\ pc[r] = "query"
    /\ LET id == conn[r].args.p_account_id
           writers == {s \in Slots : /\ req[s].method = "POST" /\ pc[s] = "returned"
                                     /\ conn[s].args.p_account_id = id
                                     /\ conn[s].balance # <<>>}
       IN
       IF id \notin DOMAIN accounts
       THEN /\ pc' = [pc EXCEPT ![r] = "returned"]
            /\ conn' = [conn EXCEPT ![r].response = <<JsonNull>>]
       ELSE /\ pc' = [pc EXCEPT ![r] = "account"]
            /\ conn' = [conn EXCEPT ![r].account_info =
                          <<[total |-> IF writers = {} THEN accounts[id].balance
                                       ELSE conn[CHOOSE s \in writers : TRUE].balance[1],
                             limite |-> accounts[id].account_limit,
                             data_extrato |-> now]>>]
    /\ UNCHANGED <<accounts, transactions, next_id, now, req, resp, budget>>
    /\ UNCHANGED startup

\* First query of the SQL function get_extrato: SELECT ... INTO account_info;
\* IF account_info IS NULL THEN RETURN NULL
get_extrato_account(r) ==
    /\ req[r].method = "GET" /\ pc[r] = "query"
    /\ LET id == conn[r].args.p_account_id IN
       IF id \notin DOMAIN accounts
       THEN /\ pc' = [pc EXCEPT ![r] = "returned"]
            /\ conn' = [conn EXCEPT ![r].response = <<JsonNull>>]
       ELSE /\ pc' = [pc EXCEPT ![r] = "account"]
            /\ conn' = [conn EXCEPT ![r].account_info =
                          <<[total |-> accounts[id].balance,
                             limite |-> accounts[id].account_limit,
                             data_extrato |-> now]>>]
    /\ UNCHANGED <<accounts, transactions, next_id, now, req, resp, budget>>
    /\ UNCHANGED startup

\* Second query of the SQL function get_extrato, run on a snapshot of its
\* own, and the RETURN json_build_object(...)
get_extrato_transactions(r) ==
    /\ req[r].method = "GET" /\ pc[r] = "account"
    /\ LET id == conn[r].args.p_account_id
           rows == OrderByIdDescLimit({t \in transactions : t.account_id = id},
                                      ExtratoLimit)
           last_transactions == json_agg([i \in DOMAIN rows |-> Projected(rows[i])])
       IN conn' = [conn EXCEPT
                     ![r].rows = [i \in DOMAIN rows |-> rows[i].id],
                     ![r].response =
                        <<[saldo |-> conn[r].account_info[1],
                           ultimas_transacoes |-> COALESCE(last_transactions, <<>>)]>>]
    /\ pc' = [pc EXCEPT ![r] = "returned"]
    /\ UNCHANGED <<accounts, transactions, next_id, now, req, resp, budget>>
    /\ UNCHANGED startup

\* The handler after the await: Ok(json_data)
get_extrato_reply(r) ==
    /\ req[r].method = "GET" /\ pc[r] = "returned"
    /\ LET json_data == conn[r].response[1] IN
       IF is_null(json_data)
       THEN Reply(r, NOT_FOUND, JsonNull)
       ELSE Reply(r, OK, json_data)
    /\ UNCHANGED <<accounts, transactions, next_id, now, req, conn, budget>>
    /\ UNCHANGED startup

\* The handler after the await: Err(_)
get_extrato_fault(r) ==
    /\ req[r].method = "GET"
    /\ pc[r] \in {"query", "account", "returned"}
    /\ Reply(r, INTERNAL_SERVER_ERROR, JsonNull)
    /\ conn' = [conn EXCEPT ![r] = NoConn]
    /\ UNCHANGED <<accounts, transactions, next_id, now, req, budget>>
    /\ UNCHANGED startup

-----------------------------------------------------------------------------
(* Inputs *)

Str(n) == SubSeq(<<"0", "1", "2", "3", "4", "5", "6", "7", "8", "9", "a">>, 1, n)

Payload(valor, tipo, descricao) ==
    [valor |-> valor, tipo |-> tipo, descricao |-> descricao]

\* Requests of the concurrent specification: <<id, payload>>
Posts ==
    { <<1, Payload(U32(0, 50), <<"d">>, <<"x">>)>>,
      <<1, Payload(U32(0, 60), <<"d">>, <<"y">>)>>,
      <<1, Payload(U32(0, 200), <<"c">>, <<"z">>)>>,
      <<1, Payload(U32(0, I32Max), <<"c">>, <<"x">>)>>,       \* 2^31 - 1
      <<1, Payload(U32(1, I32Max - 199), <<"c">>, <<"x">>)>>, \* 2^32 - 200
      <<1, Payload(U32(1, 0), <<"d">>, <<"x">>)>>,            \* 2^31
      <<2, Payload(U32(0, 50), <<"d">>, Str(10))>>,
      <<1, Payload(U32(0, 50), <<"d">>, <<>>)>>,
      <<1, Payload(U32(0, 50), <<"d">>, Str(11))>>,
      <<1, Payload(U32(0, 50), <<"x">>, <<"x">>)>>,
      <<1, Payload(U32(0, 50), <<"c", "c">>, <<"x">>)>>,
      <<1, Payload(U32(0, 0), <<"c">>, <<"x">>)>>,
      <<0, Payload(U32(0, 50), <<"d">>, <<"x">>)>>,
      <<6, Payload(U32(0, 0), <<"x">>, <<>>)>> }

Gets == {0, 1, 2, 6}

\* The accounts provisioned before the service starts: the clients 1..5,
\* of which one may be missing.
SeedIds == {MinId..MaxId, (MinId..MaxId) \ {2}}

-----------------------------------------------------------------------------
(* The concurrent specification *)

\* The three setup statements of main, in the order it executes them
Migrations ==
    <<"CREATE_INDEX_SQL", "CREATE_EXTRACT_FUNCTION_SQL",
      "CREATE_TRANSACTION_FUNCTION_SQL">>

\* main is at axum::serve, having connected at its first attempt
Serving ==
    /\ main = "serve"
    /\ retries = MaxRetries
    /\ slept = 0
    /\ setup = Migrations

InitStore(ids) ==
    /\ accounts = [i \in ids |-> [balance |-> 0, account_limit |-> SeedLimit]]
    /\ transactions = {}
    /\ next_id = 1
    /\ now = 0

InitSlots(n, b) ==
    /\ pc = [r \in 1..n |-> "idle"]
    /\ req = [r \in 1..n |-> NoReq]
    /\ conn = [r \in 1..n |-> NoConn]
    /\ resp = [r \in 1..n |-> NoResp]
    /\ budget = b

Init ==
    /\ \E ids \in SeedIds : InitStore(ids)
    /\ InitSlots(MaxReqs, MaxReqs)
    /\ Serving

Next ==
    \/ \E r \in Slots, p \in Posts : post_transacao(r, p[1], p[2])
    \/ \E r \in Slots : process_transaction_scan(r)
    \/ \E r \in Slots : process_transaction_update(r)
    \/ \E r \in Slots : process_transaction_commit(r)
    \/ \E r \in Slots : post_transacao_reply(r)
    \/ \E r \in Slots : post_transacao_fault(r)
    \/ \E r \in Slots, id \in Gets : get_extrato(r, id)
    \/ \E r \in Slots : get_extrato_account(r)
    \/ \E r \in Slots : get_extrato_transactions(r)
    \/ \E r \in Slots : get_extrato_reply(r)
    \/ \E r \in Slots : get_extrato_fault(r)

Spec == Init /\ [][Next]_vars

-----------------------------------------------------------------------------
(* Definitions shared by the properties *)

\* The signed effect of a transaction row on its account's balance
Signed(t) == IF t.type = "c" THEN t.amount ELSE -t.amount

\* A body that passes the handler's validation
ValidPayload(payload) ==
    /\ Len(payload.descricao) \in 1..10
    /\ payload.tipo \in {<<"c">>, <<"d">>}
    /\ payload.valor # U32Zero

\* The request of slot r passed the handler's validation and reached the store
Applied(r) ==
    /\ req[r].method = "POST"
    /\ req[r].id \in 1..5
    /\ ValidPayload(req[r].payload)

\* The balance account id had when its transaction row k was the newest:
\* the signed amounts of its rows up to k, added in insertion order
RECURSIVE AddSigned(_, _)
AddSigned(rows, acc) ==
    IF rows = {} THEN acc
    ELSE LET t == CHOOSE x \in rows : \A y \in rows : x.id <= y.id
         IN AddSigned(rows \ {t}, acc + Signed(t))

LedgerBalance(id, k) ==
    AddSigned({t \in transactions : t.account_id = id /\ t.id <= k}, 0)

\* No other request is being served
Alone(r) == \A s \in Slots \ {r} : ~InFlight(s)

\* The calls of process_transaction on account id whose statement committed
Effective(id) ==
    {r \in Slots : /\ req[r].method = "POST"
                   /\ pc[r] \in {"committed", "done"}
                   /\ conn[r].st = "process_transaction"
                   /\ conn[r].args.p_account_id = id}

Succeeded(r) == conn[r].response # <<>> /\ ~is_error(conn[r].response[1])

\* The orders in which the members of a finite set can be run one at a time
Orders(S) ==
    {f \in [1..Cardinality(S) -> S] :
        \A i, j \in 1..Cardinality(S) : i # j => f[i] # f[j]}

\* process_transaction run alone on row: does it raise, what it returns and
\* the row it leaves
SerialRaises(row, a) ==
    \/ WhereRaises(row, a.p_amount, a.p_type)
    \/ (WhereHolds(row, a.p_amount, a.p_type) /\ SetRaises(row, a.p_amount, a.p_type))

SerialRow(row, a) ==
    IF WhereHolds(row, a.p_amount, a.p_type)
    THEN [row EXCEPT !.balance = SetBalance(row, a.p_amount, a.p_type)]
    ELSE row

SerialResponse(row, a) ==
    IF WhereHolds(row, a.p_amount, a.p_type)
    THEN [saldo |-> SerialRow(row, a).balance, limite |-> row.account_limit]
    ELSE ErrorJson

SeedRow(id) == [balance |-> 0, account_limit |-> accounts[id].account_limit]

\* Running the calls of order from its i-th on, starting from row, gives every
\* call the response its statement returned (and its caller received) and
\* ends with the committed balance of account id.
RECURSIVE SerialMatches(_, _, _, _)
SerialMatches(id, order, i, row) ==
    IF i > Len(order)
    THEN row.balance = accounts[id].balance
    ELSE LET r == order[i]
             a == conn[r].args
         IN /\ ~SerialRaises(row, a)
            /\ conn[r].response = <<SerialResponse(row, a)>>
            /\ (resp[r].status = OK => resp[r].body = SerialResponse(row, a))
            /\ SerialMatches(id, order, i + 1, SerialRow(row, a))

-----------------------------------------------------------------------------
(* C1 *)

\* C1: in every reachable state every account satisfies
\* balance >= -credit_limit, whatever validated POST requests were served.
C1_BalanceAboveLimit ==
    \A id \in DOMAIN accounts :
        accounts[id].balance >= -accounts[id].account_limit

-----------------------------------------------------------------------------
(* C2 *)

\* C2: every step that changes an account's balance adds, in the same step,
\* exactly one transaction row of that account carrying that change, and
\* every step that adds a transaction row changes its account's balance by
\* the row's signed amount: no state has one without the other.
C2_MutationAndRecordTogether ==
    [][ LET added == transactions' \ transactions IN
        /\ Cardinality(added) <= 1
        /\ transactions \subseteq transactions'
        /\ DOMAIN accounts' = DOMAIN accounts
        /\ \A id \in DOMAIN accounts :
              accounts'[id].balance # accounts[id].balance
                 => \E t \in added : t.account_id = id
        /\ \A t \in added :
              /\ t.account_id \in DOMAIN accounts
              /\ accounts'[t.account_id].balance # accounts[t.account_id].balance
              /\ accounts'[t.account_id].balance
                    = accounts[t.account_id].balance + Signed(t)
      ]_vars

\* A call committed its balance and its row, while another call that failed
\* with a storage fault left neither.
C2_Witness ==
    \E r, s \in Slots :
        /\ pc[r] = "committed" /\ Succeeded(r)
        /\ conn[r].inserted[1] \in transactions
        /\ accounts[conn[r].args.p_account_id].balance = conn[r].balance[1]
        /\ Applied(s) /\ pc[s] = "done" /\ resp[s].status = INTERNAL_SERVER_ERROR
        /\ conn[s] = NoConn
        /\ Cardinality(transactions) = 1

-----------------------------------------------------------------------------
(* C3 *)

\* C3: the calls of process_transaction that committed on an account are
\* linearized: run one at a time in some order from the initial balance they
\* return the same responses (accepted with the same balance, or rejected)
\* and leave the same final balance; so the accepted debits of an account
\* that saw no credit never add up to more than its limit.
C3_Linearized ==
    \A id \in DOMAIN accounts :
        /\ \E order \in Orders(Effective(id)) :
              SerialMatches(id, order, 1, SeedRow(id))
        /\ \A r, s \in Effective(id) :
              ( /\ r # s /\ Succeeded(r) /\ Succeeded(s)
                /\ \A e \in Effective(id) :
                      conn[e].args.p_type = "d" /\ conn[e].args.p_amount > 0 )
              => conn[r].args.p_amount
                   <= accounts[id].account_limit - conn[s].args.p_amount

\* Two debits of 60 on the account of limit SeedLimit overlapped: one
\* committed, the other waited for the row, was re-evaluated on the new
\* balance and was rejected.
C3_Witness ==
    \E r, s \in Slots :
        /\ r # s
        /\ Applied(r) /\ Applied(s)
        /\ req[r].id = req[s].id
        /\ conn[r].st = "process_transaction" /\ conn[s].st = "process_transaction"
        /\ conn[r].args.p_type = "d" /\ conn[s].args.p_type = "d"
        /\ conn[r].args.p_amount = 60 /\ conn[s].args.p_amount = 60
        /\ pc[r] \in {"committed", "done"} /\ Succeeded(r)
        /\ pc[s] = "committed" /\ conn[s].response = <<ErrorJson>>

-----------------------------------------------------------------------------
(* C4 *)

\* C4: when all the N requests served are debits of the same amount v on one
\* account of limit L (balance 0 at the start) and none hit a storage fault,
\* exactly min(N, L div v) of them succeeded, the others were rejected as
\* unprocessable with no body, and the balance is -(v * successes) >= -L.
C4_ConcurrentDebits ==
    \A id \in DOMAIN accounts : \A v \in {50, 60} :
        ( \A r \in Slots :
              /\ Applied(r) /\ req[r].id = id
              /\ req[r].payload.valor = U32(0, v)
              /\ req[r].payload.tipo = <<"d">>
              /\ pc[r] = "done"
              /\ resp[r].status # INTERNAL_SERVER_ERROR )
        => LET N == Cardinality(Slots)
               L == accounts[id].account_limit
               k == IF N <= L \div v THEN N ELSE L \div v
               succeeded == {r \in Slots : resp[r].status = OK}
               rejected == {r \in Slots : resp[r].status = UNPROCESSABLE_ENTITY}
           IN /\ Cardinality(succeeded) = k
              /\ Cardinality(rejected) = N - k
              /\ \A r \in rejected : resp[r].body = JsonNull
              /\ accounts[id].balance = -(v * k)
              /\ accounts[id].balance >= -L

\* Every slot sent a debit of 60 to account 1 (limit SeedLimit, so k = 1 and
\* N = MaxReqs > k): one succeeded, the others were rejected.
C4_Witness ==
    /\ 1 \in DOMAIN accounts
    /\ \A r \in Slots :
          /\ Applied(r) /\ req[r].id = 1
          /\ req[r].payload.valor = U32(0, 60)
          /\ req[r].payload.tipo = <<"d">>
          /\ pc[r] = "done"
    /\ Cardinality({r \in Slots : resp[r].status = OK}) = 1
    /\ Cardinality({r \in Slots : resp[r].status = UNPROCESSABLE_ENTITY})
          = Cardinality(Slots) - 1
    /\ Cardinality(Slots) > accounts[1].account_limit \div 60
    /\ accounts[1].balance = -60

-----------------------------------------------------------------------------
(* C5 *)

\* C5: the balance a statement returns is the balance the account had in the
\* store state its transaction list was read from: the balance made of the
\* account's rows up to the newest row of the list (of no row for an empty
\* list), so no listed row is missing from the balance and no row included
\* in the balance is missing from that state.
C5_ConsistentPair ==
    \A r \in Slots :
        ( /\ req[r].method = "GET"
          /\ conn[r].st = "get_extrato"
          /\ conn[r].response # <<>>
          /\ ~is_null(conn[r].response[1]) )
        => LET rows == conn[r].rows
               newest == IF rows = <<>> THEN 0 ELSE rows[1]
           IN conn[r].response[1].saldo.total
                = LedgerBalance(conn[r].args.p_account_id, newest)

-----------------------------------------------------------------------------
(* C6 *)

\* A debit of a positive amount that would take the row below -account_limit
Breaches(row, a) ==
    /\ a.p_type = "d" /\ a.p_amount > 0
    /\ row.balance < a.p_amount - row.account_limit

\* C6: when process_transaction evaluates a debit on an existing account whose
\* balance - amount is below -account_limit, it returns the error response
\* and writes nothing; committing it changes neither table; and the handler
\* answers it with 422 (or 500 on a fault) and a null body, never a balance.
C6_DebitOverLimitRejected ==
    [][ \A r \in Slots :
          req[r].method = "POST" =>
          /\ ( /\ pc[r] \in {"query", "scanned"}
               /\ pc'[r] # pc[r]
               /\ conn'[r] # NoConn
               /\ conn[r].args.p_account_id \in DOMAIN accounts
               /\ Breaches(accounts[conn[r].args.p_account_id], conn[r].args) )
             => /\ pc'[r] = "returned"
                /\ conn'[r].response = <<ErrorJson>>
                /\ conn'[r].balance = <<>>
                /\ conn'[r].inserted = <<>>
                /\ accounts' = accounts
                /\ transactions' = transactions
          /\ ( /\ pc[r] = "returned" /\ pc'[r] = "committed"
               /\ conn[r].response = <<ErrorJson>> )
             => accounts' = accounts /\ transactions' = transactions
          /\ ( /\ pc[r] = "committed" /\ pc'[r] = "done"
               /\ conn[r].response = <<ErrorJson>> )
             => /\ resp'[r].body = JsonNull
                /\ resp'[r].status \in {UNPROCESSABLE_ENTITY, INTERNAL_SERVER_ERROR}
      ]_vars

\* After a debit of 60 took account 1 to -60, a second debit of 60 was
\* answered 422 with a null body; the balance is still -60 and the account
\* has one transaction row.
C6_Witness ==
    \E r, s \in Slots :
        /\ Applied(r) /\ Applied(s) /\ r # s
        /\ req[r].id = 1 /\ req[s].id = 1
        /\ pc[r] = "done" /\ resp[r].status = OK /\ resp[r].body.saldo = -60
        /\ conn[s].st = "process_transaction"
        /\ conn[s].args.p_type = "d" /\ conn[s].args.p_amount = 60
        /\ pc[s] = "done" /\ resp[s] = [status |-> UNPROCESSABLE_ENTITY, body |-> JsonNull]
        /\ accounts[1].balance = -60
        /\ Cardinality({t \in transactions : t.account_id = 1}) = 1

-----------------------------------------------------------------------------
(* C7 *)

\* C7: a POST with a valid body that was answered (no storage fault) is
\* answered NotFound exactly when its account id has no row in accounts.
C7_NotFoundIffAbsent ==
    \A r \in Slots :
        ( /\ req[r].method = "POST"
          /\ ValidPayload(req[r].payload)
          /\ pc[r] = "done"
          /\ resp[r].status # INTERNAL_SERVER_ERROR )
        => (resp[r].status = NOT_FOUND <=> req[r].id \notin DOMAIN accounts)

-----------------------------------------------------------------------------
(* C8 *)

\* The balances account id has had
HistoricalBalances(id) == {LedgerBalance(id, k) : k \in 0..next_id}

\* C8: a statement request that was answered (no storage fault) is answered
\* NotFound exactly when its account id has no row in accounts; for an
\* existing account the answer is 200 with the account's limit and a balance
\* the account has had.
C8_ExtratoNotFoundIffAbsent ==
    \A r \in Slots :
        ( /\ req[r].method = "GET"
          /\ pc[r] = "done"
          /\ resp[r].status # INTERNAL_SERVER_ERROR )
        => /\ resp[r].status = NOT_FOUND <=> req[r].id \notin DOMAIN accounts
           /\ req[r].id \in DOMAIN accounts =>
                 /\ resp[r].status = OK
                 /\ resp[r].body.saldo.limite = accounts[req[r].id].account_limit
                 /\ resp[r].body.saldo.total \in HistoricalBalances(req[r].id)

\* A statement of the missing account 2 was answered 404 from the NULL the
\* SQL function returned, and a statement of account 1 was answered 200 with
\* a balance changed by a transaction.
C8_Witness ==
    \E r, s \in Slots :
        /\ req[r].method = "GET" /\ req[r].id = 2 /\ 2 \notin DOMAIN accounts
        /\ pc[r] = "done" /\ resp[r].status = NOT_FOUND
        /\ conn[r].st = "get_extrato" /\ conn[r].response = <<JsonNull>>
        /\ req[s].method = "GET" /\ req[s].id = 1
        /\ pc[s] = "done" /\ resp[s].status = OK

-----------------------------------------------------------------------------
(* C9 *)

\* The steps of a call of process_transaction with a positive amount on an
\* existing account, while no other request is being served: a credit is
\* accepted, a debit exactly when balance - amount >= -account_limit; an
\* accepted call returns and commits balance +/- amount with the account's
\* limit and is answered 200 with them; a rejected debit leaves the balance
\* and is answered 422.  With fits, only calls whose new balance is a
\* 32-bit integer are covered.
C9_Step(r, fits) ==
    LET a == conn[r].args
        row == accounts[a.p_account_id]
        accept == a.p_type = "c" \/ row.balance >= a.p_amount - row.account_limit
        inRange == IF a.p_type = "c" THEN ~AddOverflows(row.balance, a.p_amount)
                   ELSE ~SubOverflows(row.balance, a.p_amount)
        new == IF a.p_type = "c" THEN row.balance + a.p_amount
               ELSE row.balance - a.p_amount
    IN ( /\ req[r].method = "POST"
         /\ Alone(r)
         /\ conn[r].st = "process_transaction"
         /\ a.p_account_id \in DOMAIN accounts
         /\ a.p_amount > 0
         /\ (fits => inRange) )
       => /\ (pc[r] = "query" /\ pc'[r] # "query" /\ conn'[r] # NoConn)
             => IF accept THEN pc'[r] = "scanned"
                ELSE /\ pc'[r] = "returned"
                     /\ conn'[r].response = <<ErrorJson>>
          /\ (pc[r] = "scanned" /\ pc'[r] # "scanned" /\ conn'[r] # NoConn)
             => /\ pc'[r] = "returned"
                /\ IF accept
                   THEN conn'[r].response
                          = <<[saldo |-> new, limite |-> row.account_limit]>>
                   ELSE conn'[r].response = <<ErrorJson>>
          /\ (pc[r] = "returned" /\ pc'[r] = "committed")
             => accounts'[a.p_account_id] =
                   IF Succeeded(r) THEN [row EXCEPT !.balance = new] ELSE row
          /\ (pc[r] = "committed" /\ pc'[r] = "done"
                /\ resp'[r].status # INTERNAL_SERVER_ERROR)
             => resp'[r] = IF Succeeded(r)
                           THEN [status |-> OK, body |-> conn[r].response[1]]
                           ELSE [status |-> UNPROCESSABLE_ENTITY, body |-> JsonNull]

-----------------------------------------------------------------------------
(* C11 *)

\* The calls of process_transaction on account id that returned a balance:
\* the statement completed (committed) with a response other than the error
Returned(id) == {r \in Effective(id) : Succeeded(r)}

\* C11: in every reachable state the balance of every account is its initial
\* balance (0) plus the amounts of its credit rows minus the amounts of its
\* debit rows, and the account has as many transaction rows as calls of
\* process_transaction on it returned success (each of them owns one row):
\* no row without its balance change, no balance change without its row.
C11_LedgerMatchesBalance ==
    \A id \in DOMAIN accounts :
        LET mine == {t \in transactions : t.account_id = id} IN
        /\ accounts[id].balance = AddSigned(mine, 0)
        /\ Cardinality(mine) = Cardinality(Returned(id))
        /\ \A r \in Returned(id) : conn[r].inserted[1] \in mine
        /\ \A r \in Effective(id) \ Returned(id) : conn[r].inserted = <<>>

\* Account 1 took a credit of 200 and a debit of 50 (two rows, balance 150)
\* and nothing else.
C11_Witness ==
    /\ 1 \in DOMAIN accounts
    /\ accounts[1].balance = 150
    /\ Cardinality(transactions) = 2
    /\ \E t, u \in transactions :
          /\ t.account_id = 1 /\ t.type = "c" /\ t.amount = 200
          /\ u.account_id = 1 /\ u.type = "d" /\ u.amount = 50
    /\ Cardinality(Returned(1)) = 2

-----------------------------------------------------------------------------
(* C12 *)

\* C12: every transaction row stored by a served POST has a strictly
\* positive amount, whatever non-zero u32 valor the handler accepted.
C12_PositiveAmounts ==
    \A t \in transactions : t.amount > 0

-----------------------------------------------------------------------------
(* C13 *)

\* The step is the handler of slot r taking a POST request
Posted(r) ==
    /\ budget' = budget - 1
    /\ <<pc[r], req[r], conn[r], resp[r]>>' # <<pc[r], req[r], conn[r], resp[r]>>
    /\ req'[r].method = "POST"

\* What validation does with the POST taken by slot r: a body with an empty
\* or over-long description, a kind other than c and d or amount 0 is
\* answered 422 with no statement issued and no table changed; any other
\* body (a description of 10 bytes included) goes to the store as a call of
\* process_transaction carrying the request's description.
C13_Step(r) ==
    LET payload == req'[r].payload IN
    /\ ( \/ Len(payload.descricao) = 0
         \/ Len(payload.descricao) >= 11
         \/ payload.tipo \notin {<<"c">>, <<"d">>}
         \/ payload.valor = U32(0, 0) )
       => /\ pc'[r] = "done"
          /\ resp'[r] = [status |-> UNPROCESSABLE_ENTITY, body |-> JsonNull]
          /\ conn'[r] = NoConn
          /\ accounts' = accounts /\ transactions' = transactions
          /\ next_id' = next_id
    /\ ( /\ Len(payload.descricao) \in 1..10
         /\ payload.tipo \in {<<"c">>, <<"d">>}
         /\ payload.valor # U32(0, 0) )
       => /\ pc'[r] = "query"
          /\ conn'[r].st = "process_transaction"
          /\ conn'[r].args.p_account_id = req'[r].id
          /\ conn'[r].args.p_description = payload.descricao

\* C13 as claimed: every POST with an invalid body is rejected as
\* unprocessable before any store interaction and changes no state, and
\* every POST with a valid body reaches the store.
C13_InvalidRejectedFirst ==
    [][\A r \in Slots : Posted(r) => C13_Step(r)]_vars

\* C13 as amended: the same for the POSTs to an account id within 1..5; a
\* POST to any other id is answered not found whatever its body, also with
\* no statement issued and no table changed.
C13_InvalidRejectedInRange ==
    [][\A r \in Slots : Posted(r) =>
          IF req'[r].id \in 1..5
          THEN C13_Step(r)
          ELSE /\ pc'[r] = "done"
               /\ resp'[r] = [status |-> NOT_FOUND, body |-> JsonNull]
               /\ conn'[r] = NoConn
               /\ accounts' = accounts /\ transactions' = transactions
               /\ next_id' = next_id
      ]_vars

\* A POST to account 1 with a description of 11 bytes was answered 422 with
\* no statement, and a POST to account 2 with a description of 10 bytes
\* is at the store.
C13_Witness ==
    \E r, s \in Slots :
        /\ req[r].method = "POST" /\ req[r].id = 1
        /\ Len(req[r].payload.descricao) = 11
        /\ pc[r] = "done" /\ conn[r] = NoConn
        /\ resp[r] = [status |-> UNPROCESSABLE_ENTITY, body |-> JsonNull]
        /\ req[s].method = "POST" /\ req[s].id = 2
        /\ Len(req[s].payload.descricao) = 10
        /\ pc[s] = "query" /\ conn[s].st = "process_transaction"
        /\ conn[s].args.p_description = req[s].payload.descricao
        /\ transactions = {}

-----------------------------------------------------------------------------
(* C14 *)

\* How far the request of a slot has got
Rank(p) ==
    CASE p \in {"idle"} -> 0
      [] p = "query" -> 1
      [] p \in {"scanned", "account"} -> 2
      [] p = "returned" -> 3
      [] p = "committed" -> 4
      [] p = "done" -> 5

\* The statement of slot r has completed and its result is with the handler
ResultReady(r) ==
    \/ req[r].method = "POST" /\ pc[r] = "committed"
    \/ req[r].method = "GET" /\ pc[r] = "returned"

\* C14: a request whose store call fails (the statement raises an error, or
\* the connection fails before the result is with the handler) ends at once
\* with 500 and a null body (no balance, no transaction list); an answer
\* other than 500 is given only from the result of a completed statement;
\* and a request never goes back to an earlier position, so the handler
\* issues one statement per request at most.
C14_FaultIsInternalError ==
    [][ \A r \in Slots :
          ( /\ budget' = budget
            /\ InFlight(r)
            /\ <<pc[r], conn[r], resp[r]>>' # <<pc[r], conn[r], resp[r]>> )
          => /\ Rank(pc'[r]) > Rank(pc[r])
             /\ req'[r] = req[r]
             /\ conn'[r] \in {NoConn, Raised}
                   => /\ pc'[r] = "done"
                      /\ resp'[r] = [status |-> INTERNAL_SERVER_ERROR, body |-> JsonNull]
             /\ (pc'[r] = "done" /\ ~ResultReady(r))
                   => /\ resp'[r] = [status |-> INTERNAL_SERVER_ERROR, body |-> JsonNull]
                      /\ conn'[r] \in {NoConn, Raised}
             /\ (pc'[r] = "done" /\ resp'[r].status # INTERNAL_SERVER_ERROR)
                   => /\ ResultReady(r)
                      /\ conn'[r] = conn[r]
                      /\ conn[r].response # <<>>
             /\ pc'[r] # "done" => resp'[r] = NoResp
      ]_vars

\* A validated POST lost its connection before its statement committed and
\* a statement request of account 1 lost its own: both were answered 500
\* with a null body and no table changed.
C14_Witness ==
    \E r, s \in Slots :
        /\ Applied(r) /\ pc[r] = "done" /\ conn[r] = NoConn
        /\ resp[r] = [status |-> INTERNAL_SERVER_ERROR, body |-> JsonNull]
        /\ req[s].method = "GET" /\ req[s].id = 1
        /\ pc[s] = "done" /\ conn[s] = NoConn
        /\ resp[s] = [status |-> INTERNAL_SERVER_ERROR, body |-> JsonNull]
        /\ transactions = {}
        /\ \A id \in DOMAIN accounts : accounts[id].balance = 0

-----------------------------------------------------------------------------
(* C23 *)

\* Slot r takes a request
Taken(r) ==
    /\ budget' = budget - 1
    /\ <<pc[r], req[r], conn[r], resp[r]>>' # <<pc[r], req[r], conn[r], resp[r]>>

\* C23: a request of either handler whose path id is outside 1..5 is
\* answered NotFound in the step that takes it, whatever the body of a POST
\* (so never unprocessable), with no statement issued then or later and no
\* table, sequence or clock changed by it.
C23_OutOfRangeIsNotFound ==
    /\ [](\A r \in 1..MaxReqs :
            (req[r].method # "none" /\ req[r].id \notin 1..5)
            => /\ pc[r] = "done"
               /\ resp[r] = [status |-> NOT_FOUND, body |-> JsonNull]
               /\ conn[r] = NoConn)
    /\ [][\A r \in 1..MaxReqs :
            (Taken(r) /\ req'[r].id \notin 1..5)
            => /\ req'[r].method \in {"GET", "POST"}
               /\ resp'[r].status = NOT_FOUND
               /\ UNCHANGED <<accounts, transactions, next_id, now>>
               /\ \A s \in (1..MaxReqs) \ {r} :
                     <<pc[s], req[s], conn[s], resp[s]>>'
                        = <<pc[s], req[s], conn[s], resp[s]>>
      ]_vars

\* A POST to id 6 whose description is empty, whose kind is neither c nor d
\* and whose amount is 0 was answered 404, and so was a statement request
\* for id 0; no statement was issued and no row written.
C23_Witness ==
    /\ \E r \in Slots :
          /\ req[r].method = "POST" /\ req[r].id = 6
          /\ Len(req[r].payload.descricao) = 0
          /\ req[r].payload.tipo = <<"x">>
          /\ req[r].payload.valor = U32Zero
          /\ pc[r] = "done" /\ resp[r].status = NOT_FOUND /\ conn[r] = NoConn
    /\ \E r \in Slots :
          /\ req[r].method = "GET" /\ req[r].id = 0
          /\ pc[r] = "done" /\ resp[r].status = NOT_FOUND /\ conn[r] = NoConn
    /\ transactions = {} /\ next_id = 1

-----------------------------------------------------------------------------
(* The sequential specification: one client that sends its next request    *)
(* when the previous one is answered, against a store that answers.        *)

SeqPosts ==
    { <<1, Payload(U32(0, 200), <<"c">>, <<"z">>)>>,
      <<3, Payload(U32(0, 50), <<"d">>, <<"x">>)>> }

SeqGets == {1}

InitSeq ==
    /\ InitStore(MinId..MaxId)
    /\ InitSlots(1, SeqReqs)
    /\ Serving

NextSeq ==
    \/ \E r \in Slots, p \in SeqPosts : post_transacao(r, p[1], p[2])
    \/ \E r \in Slots : process_transaction_scan(r)
    \/ \E r \in Slots : process_transaction_update(r)
    \/ \E r \in Slots : process_transaction_commit(r)
    \/ \E r \in Slots : post_transacao_reply(r)
    \/ \E r \in Slots, id \in SeqGets : get_extrato(r, id)
    \/ \E r \in Slots : get_extrato_account(r)
    \/ \E r \in Slots : get_extrato_transactions(r)
    \/ \E r \in Slots : get_extrato_reply(r)

SpecSeq == InitSeq /\ [][NextSeq]_vars

-----------------------------------------------------------------------------
(* C10 *)

\* C10: an answered statement lists the min(10, n) rows of its account with
\* the largest ids (n the number of the account's rows), newest first, each
\* with its amount, kind and description, and carries the account's
\* committed balance and its limit.
C10_LastTenNewestFirst ==
    \A r \in Slots :
        ( /\ req[r].method = "GET"
          /\ conn[r].st = "get_extrato"
          /\ pc[r] \in {"returned", "done"}
          /\ ~is_null(conn[r].response[1]) )
        => LET id == req[r].id
               mine == {t \in transactions : t.account_id = id}
               n == Cardinality(mine)
               rows == conn[r].rows
               json == conn[r].response[1]
           IN /\ Len(rows) = (IF n < 10 THEN n ELSE 10)
              /\ Len(json.ultimas_transacoes) = Len(rows)
              /\ \A i \in 1..Len(rows) :
                    \E t \in mine :
                        /\ t.id = rows[i]
                        /\ json.ultimas_transacoes[i].valor = t.amount
                        /\ json.ultimas_transacoes[i].tipo = t.type
                        /\ json.ultimas_transacoes[i].descricao = t.description
              /\ \A i, j \in 1..Len(rows) : i < j => rows[i] > rows[j]
              /\ \A t \in mine :
                    (\A i \in 1..Len(rows) : rows[i] # t.id)
                       => \A i \in 1..Len(rows) : t.id < rows[i]
              /\ json.saldo.total = accounts[id].balance
              /\ json.saldo.limite = accounts[id].account_limit
              /\ pc[r] = "done" => resp[r] = [status |-> OK, body |-> json]

\* Twelve credits T1..T12 were posted to account 1, in that order and alone
\* in the table; the statement that followed lists T12..T3 and a balance
\* made of all twelve.
C10_Witness ==
    \E r \in Slots :
        /\ req[r].method = "GET" /\ req[r].id = 1
        /\ pc[r] = "done" /\ resp[r].status = OK
        /\ {t.id : t \in transactions} = 1..12
        /\ \A t \in transactions : t.account_id = 1
        /\ conn[r].rows = <<12, 11, 10, 9, 8, 7, 6, 5, 4, 3>>
        /\ Len(resp[r].body.ultimas_transacoes) = 10
        /\ resp[r].body.saldo.total = 12 * 200

-----------------------------------------------------------------------------
(* C16 *)

\* C16: the statement of an existing account that has no transaction row is
\* not NULL, its ultimas_transacoes is the empty array (never null), it
\* carries the account's balance and limit, and it is answered 200 with that
\* body unless the connection fails.
C16_EmptyListNotNull ==
    \A r \in Slots :
        ( /\ req[r].method = "GET"
          /\ conn[r].st = "get_extrato"
          /\ pc[r] \in {"returned", "done"}
          /\ req[r].id \in DOMAIN accounts
          /\ \A t \in transactions : t.account_id # req[r].id )
        => LET json == conn[r].response[1] IN
           /\ ~is_null(json)
           /\ DOMAIN json.ultimas_transacoes = {}
           /\ json.saldo.total = accounts[req[r].id].balance
           /\ json.saldo.limite = accounts[req[r].id].account_limit
           /\ pc[r] = "done" => resp[r] = [status |-> OK, body |-> json]

\* The statement of account 1 was answered 200 with an empty list while
\* account 2 has a transaction row and account 1 has none.
C16_Witness ==
    \E r \in Slots :
        /\ req[r].method = "GET" /\ req[r].id = 1
        /\ pc[r] = "done" /\ resp[r].status = OK
        /\ resp[r].body.ultimas_transacoes = <<>>
        /\ \E t \in transactions : t.account_id = 2
        /\ \A t \in transactions : t.account_id # 1

-----------------------------------------------------------------------------
(* C18 *)

\* Slot s holds the row of an account
HoldsRow(s) ==
    /\ req[s].method = "POST" /\ pc[s] = "returned"
    /\ conn[s].st = "process_transaction" /\ conn[s].locked

\* C18: a call of process_transaction never waits for a call on another
\* account: whatever rows of other accounts are held by calls in progress,
\* it can take its snapshot, update its own row and commit.
C18_OtherAccountsDoNotBlock ==
    \A r \in Slots :
        ( /\ req[r].method = "POST"
          /\ conn[r].st = "process_transaction"
          /\ \A s \in Slots \ {r} :
                HoldsRow(s) => conn[s].args.p_account_id # conn[r].args.p_account_id )
        => /\ pc[r] = "query" => ENABLED process_transaction_scan(r)
           /\ pc[r] = "scanned" => ENABLED process_transaction_update(r)
           /\ pc[r] = "returned" => ENABLED process_transaction_commit(r)

\* A debit on account 1 updated its row, committed and was answered 200, all
\* while a debit on account 2 that had taken its own row before held it.
C18_Witness ==
    \E r, s \in Slots :
        /\ HoldsRow(s) /\ conn[s].args.p_account_id = 2
        /\ conn[s].inserted # <<>>
        /\ req[r].method = "POST" /\ conn[r].st = "process_transaction"
        /\ conn[r].args.p_account_id = 1
        /\ pc[r] = "done" /\ resp[r].status = OK
        /\ conn[r].inserted[1].id > conn[s].inserted[1].id
        /\ conn[r].inserted[1] \in transactions

-----------------------------------------------------------------------------
(* C20 *)

\* C20: a step changes a table only as the commit of an accepted call of
\* process_transaction on some account A: it changes the balance of A alone,
\* adds exactly one row, of A, and leaves every other balance, every
\* account_limit (that of A included), the set of accounts and every row
\* stored before as they were; the commit of a rejected call, and every
\* step of a statement request, change no table.
C20_Frame ==
    [][ /\ DOMAIN accounts' = DOMAIN accounts
        /\ \A id \in DOMAIN accounts :
              accounts'[id].account_limit = accounts[id].account_limit
        /\ transactions \subseteq transactions'
        /\ (accounts' # accounts \/ transactions' # transactions) =>
              \E r \in Slots :
                  /\ req[r].method = "POST"
                  /\ pc[r] = "returned" /\ pc'[r] = "committed"
                  /\ Succeeded(r)
                  /\ LET A == conn[r].args.p_account_id IN
                     /\ \A id \in DOMAIN accounts \ {A} : accounts'[id] = accounts[id]
                     /\ accounts'[A].balance = conn[r].response[1].saldo
                     /\ \E t \in transactions' \ transactions :
                           /\ transactions' = transactions \cup {t}
                           /\ t.account_id = A
                           /\ t.amount = conn[r].args.p_amount
                           /\ t.type = conn[r].args.p_type
                           /\ t.description = conn[r].args.p_description
        /\ \A r \in Slots :
              ( /\ req[r].method = "POST"
                /\ pc[r] = "returned" /\ pc'[r] = "committed"
                /\ ~Succeeded(r) )
              => accounts' = accounts /\ transactions' = transactions
      ]_vars

\* Account 1 holds the rows of two accepted calls, the older one as it was
\* stored, after a second call on account 1 committed, and account 2 holds
\* its balance 0 and every account its limit.
C20_Witness ==
    /\ \E t, u \in transactions :
          /\ t.id = 1 /\ u.id = 2
          /\ t.account_id = 1 /\ u.account_id = 1
    /\ \A id \in DOMAIN accounts :
          /\ accounts[id].account_limit = SeedLimit
          /\ id # 1 => accounts[id].balance = 0
    /\ accounts[1].balance # 0

-----------------------------------------------------------------------------
(* The read specification: every request keeps its slot, so the slots are   *)
(* the history of the run in the order the requests were sent; POSTs may    *)
(* overlap anything, and the client sends a GET when none of its POSTs is   *)
(* awaiting its answer.                                                     *)

ReadPosts ==
    { <<1, Payload(U32(0, 60), <<"d">>, <<"y">>)>>,
      <<1, Payload(U32(0, 200), <<"c">>, <<"z">>)>> }

ReadGets == {1}

\* No POST is awaiting its answer
NoPostInFlight == \A s \in Slots : req[s].method = "POST" => ~InFlight(s)

InitRead ==
    /\ InitStore(MinId..MaxId)
    /\ InitSlots(ReadReqs, ReadReqs)
    /\ Serving

NextRead ==
    \/ \E r \in Slots, p \in ReadPosts : post_transacao(r, p[1], p[2])
    \/ \E r \in Slots : process_transaction_scan(r)
    \/ \E r \in Slots : process_transaction_update(r)
    \/ \E r \in Slots : process_transaction_commit(r)
    \/ \E r \in Slots : post_transacao_reply(r)
    \/ \E r \in Slots : post_transacao_fault(r)
    \/ \E r \in Slots, id \in ReadGets : NoPostInFlight /\ get_extrato(r, id)
    \/ \E r \in Slots : get_extrato_account(r)
    \/ \E r \in Slots : get_extrato_transactions(r)
    \/ \E r \in Slots : get_extrato_reply(r)

SpecRead == InitRead /\ [][NextRead]_vars

-----------------------------------------------------------------------------
(* C15 *)

\* The statement of slot r has its result
HasStatement(r) ==
    /\ req[r].method = "GET"
    /\ conn[r].st = "get_extrato"
    /\ pc[r] \in {"returned", "done"}
    /\ ~is_null(conn[r].response[1])

\* No call of process_transaction on account id sent after request r has
\* committed a change (those sent before r were answered before r was sent)
NoApplySince(r, id) ==
    \A k \in Slots :
        (k > r /\ req[k].method = "POST" /\ req[k].id = id)
           => ~(pc[k] \in {"committed", "done"}
                  /\ conn[k].st = "process_transaction" /\ Succeeded(k))

\* Two statements of one account, neither with an apply committed since the
\* first was sent, carry the same balance, limit and transaction list
SameStatements ==
    \A r, s \in Slots :
        ( /\ r < s
          /\ HasStatement(r) /\ HasStatement(s)
          /\ req[r].id = req[s].id
          /\ NoApplySince(r, req[r].id) )
        => LET a == conn[r].response[1]
               b == conn[s].response[1]
           IN /\ a.saldo.total = b.saldo.total
              /\ a.saldo.limite = b.saldo.limite
              /\ a.ultimas_transacoes = b.ultimas_transacoes
              /\ (pc[r] = "done" /\ resp[r].status = OK) => resp[r].body = a
              /\ (pc[s] = "done" /\ resp[s].status = OK) => resp[s].body = b

\* C15: statements of an account with no apply committing from the first to
\* the last of them return the same balance, limit and transaction list
\* (the timestamp data_extrato apart), and no step of a statement request
\* changes a table.
C15_IdempotentRead ==
    [][ /\ SameStatements'
        /\ \A r \in Slots :
              ( /\ req'[r].method = "GET"
                /\ <<pc[r], req[r], conn[r], resp[r]>>' # <<pc[r], req[r], conn[r], resp[r]>> )
              => /\ accounts' = accounts
                 /\ transactions' = transactions
                 /\ next_id' = next_id
      ]_vars

\* After a debit of 60 on account 1 two statements were answered with the
\* same balance -60 and the same one-row list.
C15_Witness ==
    \E r, s \in Slots :
        /\ r < s
        /\ HasStatement(r) /\ pc[r] = "done" /\ resp[r].status = OK
        /\ HasStatement(s) /\ pc[s] = "done" /\ resp[s].status = OK
        /\ NoApplySince(r, 1)
        /\ resp[r].body.saldo.total = -60 /\ resp[s].body.saldo.total = -60
        /\ Len(resp[r].body.ultimas_transacoes) = 1
        /\ resp[r].body.ultimas_transacoes[1].valor = 60
        /\ resp[r].body.ultimas_transacoes = resp[s].body.ultimas_transacoes

-----------------------------------------------------------------------------
(* The cancellation specification: the caller of a POST may go away while   *)
(* the handler awaits the query.  The handler's future is then dropped at   *)
(* its await: no response is written, and the statement, if it was sent,    *)
(* goes on in the server.                                                   *)

Abandoned == [status |-> -1, body |-> JsonNull]   \* no response: caller gone

CancelPosts ==
    { <<1, Payload(U32(0, 60), <<"d">>, <<"y">>)>>,
      <<1, Payload(U32(0, 200), <<"c">>, <<"z">>)>>,
      <<2, Payload(U32(0, 50), <<"d">>, Str(10))>> }

\* The handler is awaiting the result of its query
Awaiting(r) ==
    /\ req[r].method = "POST"
    /\ pc[r] \in {"query", "scanned", "returned", "committed"}
    /\ resp[r] = NoResp

\* The caller goes away: the future of the handler is dropped at .await
post_transacao_cancel(r) ==
    /\ Awaiting(r)
    /\ resp' = [resp EXCEPT ![r] = Abandoned]
    /\ UNCHANGED <<accounts, transactions, next_id, now, pc, req, conn, budget>>
    /\ UNCHANGED startup

\* The statement of a dropped handler completed: nobody reads its result
post_transacao_dropped_result(r) ==
    /\ req[r].method = "POST" /\ pc[r] = "committed"
    /\ resp[r] = Abandoned
    /\ pc' = [pc EXCEPT ![r] = "done"]
    /\ UNCHANGED <<accounts, transactions, next_id, now, req, conn, resp, budget>>
    /\ UNCHANGED startup

post_transacao_dropped_abort_partial(r) ==
    /\ req[r].method = "POST" /\ pc[r] \in {"query", "scanned", "returned"}
    /\ resp[r] = Abandoned
    /\ pc' = [pc EXCEPT ![r] = "done"]
    /\ conn' = [conn EXCEPT ![r] = NoConn]
    /\ accounts' = IF pc[r] = "returned" /\ conn[r].balance # <<>>
                   THEN [accounts EXCEPT ![conn[r].args.p_account_id].balance =
                                             conn[r].balance[1]]
                   ELSE accounts
    /\ UNCHANGED <<transactions, next_id, now, req, resp, budget>>
    /\ UNCHANGED startup

\* The statement of a dropped handler was never sent, or its transaction
\* was rolled back with the connection: none of its writes is kept
post_transacao_dropped_abort(r) ==
    /\ req[r].method = "POST" /\ pc[r] \in {"query", "scanned", "returned"}
    /\ resp[r] = Abandoned
    /\ pc' = [pc EXCEPT ![r] = "done"]
    /\ conn' = [conn EXCEPT ![r] = NoConn]
    /\ UNCHANGED <<accounts, transactions, next_id, now, req, resp, budget>>
    /\ UNCHANGED startup

InitCancel ==
    /\ InitStore(MinId..MaxId)
    /\ InitSlots(MaxReqs, MaxReqs)
    /\ Serving

NextCancel ==
    \/ \E r \in Slots, p \in CancelPosts : post_transacao(r, p[1], p[2])
    \/ \E r \in Slots : process_transaction_scan(r)
    \/ \E r \in Slots : process_transaction_update(r)
    \/ \E r \in Slots : process_transaction_commit(r)
    \/ \E r \in Slots : Awaiting(r) /\ post_transacao_reply(r)
    \/ \E r \in Slots : Awaiting(r) /\ post_transacao_fault(r)
    \/ \E r \in Slots : post_transacao_cancel(r)
    \/ \E r \in Slots : post_transacao_dropped_result(r)
    \/ \E r \in Slots : post_transacao_dropped_abort(r)

SpecCancel == InitCancel /\ [][NextCancel]_vars

-----------------------------------------------------------------------------
(* C17 *)

\* C17: whenever callers abandon their POSTs, every account's balance is
\* made of exactly its transaction rows, and the statement of an abandoned
\* request has either completed, with its row stored when it returned a
\* balance and no row when it was rejected, or left no row at all: no state
\* has a balance change without its row or a row without its balance change.
C17_AbandonedIsAllOrNothing ==
    /\ \A id \in DOMAIN accounts :
          accounts[id].balance
             = AddSigned({t \in transactions : t.account_id = id}, 0)
    /\ \A r \in Slots :
          (req[r].method = "POST" /\ resp[r] = Abandoned) =>
             IF conn[r] = NoConn THEN TRUE
             ELSE IF pc[r] \in {"committed", "done"}
             THEN IF Succeeded(r)
                  THEN conn[r].inserted[1] \in transactions
                  ELSE conn[r].inserted = <<>>
             ELSE \A i \in DOMAIN conn[r].inserted :
                     conn[r].inserted[i] \notin transactions
    /\ \A t \in transactions :
          \E r \in Slots :
              /\ pc[r] \in {"committed", "done"}
              /\ conn[r] # NoConn
              /\ conn[r].inserted = <<t>>

\* One caller left and its debit of 60 committed all the same (row and
\* balance -60); another left while its credit held the row with its
\* writes pending, and neither of them is visible.
C17_Witness ==
    \E r, s \in Slots :
        /\ resp[r] = Abandoned /\ pc[r] = "done"
        /\ conn[r].st = "process_transaction" /\ Succeeded(r)
        /\ conn[r].args.p_type = "d"
        /\ conn[r].inserted[1] \in transactions
        /\ resp[s] = Abandoned /\ pc[s] = "returned"
        /\ conn[s].st = "process_transaction"
        /\ conn[s].args.p_type = "c" /\ conn[s].balance # <<>>
        /\ conn[s].args.p_account_id = 1 /\ conn[r].args.p_account_id = 1
        /\ accounts[1].balance = -60
        /\ Cardinality(transactions) = 1

-----------------------------------------------------------------------------
(* The fair specification: the store answers (no fault) and every step of   *)
(* a handler or of a statement that can be taken is eventually taken: the   *)
(* runtime polls every ready task and PostgreSQL runs every backend.        *)

LivePosts ==
    { <<1, Payload(U32(0, 60), <<"d">>, <<"y">>)>>,
      <<1, Payload(U32(0, 200), <<"c">>, <<"z">>)>>,
      <<2, Payload(U32(0, 50), <<"d">>, Str(10))>> }

LiveGets == {1, 6}

NextLive ==
    \/ \E r \in Slots, p \in LivePosts : post_transacao(r, p[1], p[2])
    \/ \E r \in Slots : process_transaction_scan(r)
    \/ \E r \in Slots : process_transaction_update(r)
    \/ \E r \in Slots : process_transaction_commit(r)
    \/ \E r \in Slots : post_transacao_reply(r)
    \/ \E r \in Slots, id \in LiveGets : get_extrato(r, id)
    \/ \E r \in Slots : get_extrato_account(r)
    \/ \E r \in Slots : get_extrato_transactions(r)
    \/ \E r \in Slots : get_extrato_reply(r)

Fairness ==
    \A r \in 1..MaxReqs :
        /\ WF_vars(process_transaction_scan(r))
        /\ WF_vars(process_transaction_update(r))
        /\ WF_vars(process_transaction_commit(r))
        /\ WF_vars(post_transacao_reply(r))
        /\ WF_vars(get_extrato_account(r))
        /\ WF_vars(get_extrato_transactions(r))
        /\ WF_vars(get_extrato_reply(r))

SpecLive == Init /\ [][NextLive]_vars /\ Fairness

-----------------------------------------------------------------------------
(* C19 *)

\* C19: under the fair specification every request that reached the store,
\* POST or GET, on the same account as others or not, is eventually
\* answered with one of its outcomes: 200, 422 or 404.
C19_EveryCallCompletes ==
    \A r \in 1..MaxReqs :
        (pc[r] \notin {"idle", "done"})
           ~> ( /\ pc[r] = "done"
                /\ resp[r].status \in {OK, UNPROCESSABLE_ENTITY, NOT_FOUND} )

\* Every request was answered: of two debits on account 1 one was answered
\* 200 and the other 422, and the balance is -60.
C19_Witness ==
    /\ \A r \in Slots : pc[r] = "done"
    /\ \E r, s \in Slots :
          /\ r # s
          /\ conn[r].st = "process_transaction" /\ conn[s].st = "process_transaction"
          /\ conn[r].args.p_account_id = 1 /\ conn[s].args.p_account_id = 1
          /\ resp[r].status = OK
          /\ resp[s].status = UNPROCESSABLE_ENTITY
          /\ conn[s].locked = FALSE /\ conn[s].response = <<ErrorJson>>
          /\ accounts[1].balance = -60

-----------------------------------------------------------------------------
(* The clock specification: the database clock advances while calls of      *)
(* process_transaction overlap.                                             *)

ClockPosts ==
    { <<1, Payload(U32(0, 50), <<"d">>, <<"x">>)>>,
      <<1, Payload(U32(0, 200), <<"c">>, <<"z">>)>>,
      <<2, Payload(U32(0, 50), <<"d">>, Str(10))>> }

\* Time passes on the server
Tick ==
    /\ now < MaxNow
    /\ now' = now + 1
    /\ UNCHANGED <<accounts, transactions, next_id, pc, req, conn, resp, budget>>
    /\ UNCHANGED startup

NextClock ==
    \/ \E r \in Slots, p \in ClockPosts : post_transacao(r, p[1], p[2])
    \/ \E r \in Slots : process_transaction_scan(r)
    \/ \E r \in Slots : process_transaction_update(r)
    \/ \E r \in Slots : process_transaction_commit(r)
    \/ \E r \in Slots : post_transacao_reply(r)
    \/ Tick

SpecClock == InitCancel /\ [][NextClock]_vars

-----------------------------------------------------------------------------
(* C21 *)

-----------------------------------------------------------------------------
(* The startup specification: main from its connection loop to axum::serve, *)
(* and the requests served from then on.  A connection attempt and the      *)
(* sleep between attempts always come to an end.                            *)

store == <<accounts, transactions, next_id, now>>
slots == <<pc, req, conn, resp, budget>>

\* match pool_options.clone().connect(&database_url).await: Ok(p) => break p
main_connect_ok ==
    /\ main = "connect"
    /\ main' = "migrate"
    /\ UNCHANGED <<retries, slept, setup, store, slots>>

main_connect_err_checks_first ==
    /\ main = "connect"
    /\ IF retries = 0
       THEN main' = "exit" /\ UNCHANGED retries
       ELSE main' = "sleep" /\ retries' = retries - 1
    /\ UNCHANGED <<slept, setup, store, slots>>

\* Err(_) => retries -= 1; if retries == 0 { std::process::exit(1) }
main_connect_err ==
    /\ main = "connect"
    /\ retries' = retries - 1
    /\ main' = IF retries' = 0 THEN "exit" ELSE "sleep"
    /\ UNCHANGED <<slept, setup, store, slots>>

\* sleep(Duration::from_secs(3)).await, then the next turn of the loop
main_sleep ==
    /\ main = "sleep"
    /\ slept' = slept + SleepSecs
    /\ main' = "connect"
    /\ UNCHANGED <<retries, setup, store, slots>>

\* sqlx::query(..).execute(&pool).await? of the next setup statement: Ok
main_migrate_ok ==
    /\ main = "migrate"
    /\ setup' = Append(setup, Migrations[Len(setup) + 1])
    /\ main' = IF Len(setup') = Len(Migrations) THEN "bind" ELSE "migrate"
    /\ UNCHANGED <<retries, slept, store, slots>>

main_migrate_err_ignored ==
    /\ main = "migrate"
    /\ main' = "bind"
    /\ UNCHANGED <<retries, slept, setup, store, slots>>

\* sqlx::query(..).execute(&pool).await? of the next setup statement: Err,
\* which ? returns from main
main_migrate_err ==
    /\ main = "migrate"
    /\ main' = "failed"
    /\ UNCHANGED <<retries, slept, setup, store, slots>>

\* The router is built, PORT parsed and the listener bound: axum::serve
main_serve ==
    /\ main = "bind"
    /\ main' = "serve"
    /\ UNCHANGED <<retries, slept, setup, store, slots>>

\* PORT does not parse or the listener cannot be bound: ? returns from main
main_bind_err ==
    /\ main = "bind"
    /\ main' = "failed"
    /\ UNCHANGED <<retries, slept, setup, store, slots>>

StartPosts ==
    { <<1, Payload(U32(0, 200), <<"c">>, <<"z">>)>> }

StartGets == {1}

InitStartup ==
    /\ InitStore(MinId..MaxId)
    /\ InitSlots(MaxReqs, MaxReqs)
    /\ main = "connect"
    /\ retries = MaxRetries
    /\ slept = 0
    /\ setup = <<>>

NextStartup ==
    \/ main_connect_ok
    \/ main_connect_err
    \/ main_sleep
    \/ main_migrate_ok
    \/ main_migrate_err
    \/ main_serve
    \/ main_bind_err
    \/ \E r \in Slots, p \in StartPosts : main = "serve" /\ post_transacao(r, p[1], p[2])
    \/ \E r \in Slots : process_transaction_scan(r)
    \/ \E r \in Slots : process_transaction_update(r)
    \/ \E r \in Slots : process_transaction_commit(r)
    \/ \E r \in Slots : post_transacao_reply(r)
    \/ \E r \in Slots, id \in StartGets : main = "serve" /\ get_extrato(r, id)
    \/ \E r \in Slots : get_extrato_account(r)
    \/ \E r \in Slots : get_extrato_transactions(r)
    \/ \E r \in Slots : get_extrato_reply(r)

SpecStartup ==
    /\ InitStartup
    /\ [][NextStartup]_vars
    /\ WF_vars(main_connect_ok \/ main_connect_err)
    /\ WF_vars(main_sleep)

-----------------------------------------------------------------------------
(* C22 *)

\* The connection attempts that have failed so far
Failures == MaxRetries - retries

\* No request has been taken
NothingServed ==
    /\ budget = MaxReqs
    /\ \A r \in Slots : pc[r] = "idle"

\* In the loop main has failed fewer than 10 attempts, and has slept 3
\* seconds after each failure when it is about to connect and after all but
\* the last when it is about to sleep; it has exited exactly when the 10th
\* attempt failed, after 9 sleeps, with no setup statement run and no
\* request served; past the loop its sleeps are those of the failures
\* before the one success.
C22_LoopState ==
    /\ retries \in 0..10
    /\ main = "connect" => (Failures <= 9 /\ slept = 3 * Failures)
    /\ main = "sleep" => (Failures \in 1..9 /\ slept = 3 * (Failures - 1))
    /\ main = "exit" <=> retries = 0
    /\ main = "exit" => (Failures = 10 /\ slept = 27 /\ setup = <<>> /\ NothingServed)
    /\ main \notin {"connect", "sleep", "exit"} => (Failures <= 9 /\ slept = 3 * Failures)

\* An attempt that succeeds leaves the loop at once, keeping the attempts
\* left; nothing follows the exit.
C22_LoopStep ==
    /\ (main = "connect" /\ main' # "connect")
          => \/ main' = "migrate" /\ retries' = retries /\ slept' = slept
             \/ main' \in {"sleep", "exit"} /\ retries' = retries - 1 /\ slept' = slept
    /\ main = "exit" => UNCHANGED vars
    /\ main \notin {"connect", "sleep"} => main' \notin {"connect", "sleep"}

\* C22: the loop makes at most 10 connection attempts with a pause of 3
\* seconds between consecutive failed attempts, leaves with the pool at the
\* first success, ends the process (exit code 1) after the 10th failure
\* without running a setup statement or serving a request, and always
\* terminates.
C22_ConnectionLoop ==
    /\ []C22_LoopState
    /\ [][C22_LoopStep]_vars
    /\ <>(main \notin {"connect", "sleep"})

\* Ten attempts failed: main exited after 9 sleeps of 3 seconds.
C22_Witness ==
    /\ main = "exit" /\ retries = 0 /\ slept = 27
    /\ setup = <<>> /\ NothingServed

-----------------------------------------------------------------------------
(* C24 *)

\* The setup statements main has executed are the first of the three, in
\* the order index, get_extrato, process_transaction; none is executed
\* before the connection succeeded; a request has been taken only with
\* main at axum::serve, and main is there only with all three executed;
\* after a failure of startup no request has been served.
C24_State ==
    /\ \E n \in 0..3 :
          setup = SubSeq(<<"CREATE_INDEX_SQL", "CREATE_EXTRACT_FUNCTION_SQL",
                           "CREATE_TRANSACTION_FUNCTION_SQL">>, 1, n)
    /\ main \in {"connect", "sleep", "exit"} => setup = <<>>
    /\ main = "migrate" => Len(setup) < 3
    /\ main \in {"bind", "serve"} => Len(setup) = 3
    /\ ~NothingServed => main = "serve"
    /\ main \in {"failed", "exit"} => NothingServed

\* A request is taken only while main is at axum::serve, a setup statement
\* is executed only past the connection loop, and a startup that failed
\* stays failed.
C24_Step ==
    /\ budget' # budget => (main = "serve" /\ main' = "serve")
    /\ setup' # setup => (main = "migrate" /\ Len(setup') = Len(setup) + 1)
    /\ main = "failed" => UNCHANGED vars
    /\ main # "migrate" /\ main' = "failed" => main = "bind"

\* C24: requests are accepted only after the connection succeeded and the
\* three setup statements (index, get_extrato function,
\* process_transaction function) executed successfully in that order; when
\* one of them fails startup ends with the error and no request is ever
\* served.
C24_ServeAfterSetup ==
    /\ []C24_State
    /\ [][C24_Step]_vars

\* After two failed connection attempts and the three setup statements the
\* server answered a statement request with 200 and committed a credit.
C24_Witness ==
    /\ main = "serve" /\ retries = 8 /\ slept = 6
    /\ setup = Migrations
    /\ \E r \in Slots :
          /\ req[r].method = "GET" /\ pc[r] = "done" /\ resp[r].status = OK
    /\ \E t \in transactions : t.account_id = 1 /\ t.amount = 200

====
